---- MODULE Spec2Model ----
(***************************************************************************)
(* puppeteer-pdf-service (src/server.js): the Express application that     *)
(* turns a catalog request into a PDF.  The model covers the router pass   *)
(* (rate limiter and route match), the POST /api/generate-pdf handler with *)
(* every await as a step of its own, the POST /api/test-pdf handler, and   *)
(* the templater generateCatalogHTML with formatPrice.                     *)
(*                                                                         *)
(* JavaScript values are tagged records: [t |-> "undefined"],              *)
(* [t |-> "str", s |-> <<characters>>], [t |-> "num", n |-> n],            *)
(* [t |-> "arr", a |-> <<elements>>], [t |-> "obj", o |-> [field |-> ..]]. *)
(* A string is a sequence of one-token strings; a token is one character   *)
(* or one piece of literal markup.                                         *)
(***************************************************************************)
EXTENDS Integers, Sequences, FiniteSets, TLC

VARIABLES url, body, pc, browser, page, html, headers, resp, thrown,
          launches, closes, testRuns, browsers, pages, content, hits, windows

vars == <<url, body, pc, browser, page, html, headers, resp, thrown,
          launches, closes, testRuns, browsers, pages, content, hits, windows>>

---------------------------------------------------------------------------
(* Bounds of the model *)

\* concurrent requests of the concurrent specification
NumReqs == 2
\* longest business name drawn for the single-request specification
MaxNameLen == 2
\* longest product list drawn for the single-request specification
MaxProducts == 2
\* rate-limit windows that may elapse while the model runs
MaxWindows == 1

(* Program constants *)

\* max of the rate limiter: requests per window and client
RateMax == 100

Reqs == 1..NumReqs

---------------------------------------------------------------------------
(* JavaScript values *)

Undef == [t |-> "undefined"]
Str(s) == [t |-> "str", s |-> s]
Num(n) == [t |-> "num", n |-> n]
Arr(a) == [t |-> "arr", a |-> a]
Obj(o) == [t |-> "obj", o |-> o]

\* ToBoolean, as `!x` and `x || d` apply it
Truthy(x) ==
  CASE x.t = "undefined" -> FALSE
    [] x.t = "str" -> x.s # <<>>
    [] x.t = "num" -> x.n # 0
    [] OTHER -> TRUE

\* x || d
OrElse(x, d) == IF Truthy(x) THEN x ELSE d

\* x.f of a value that is not null or undefined: a missing property, and any
\* property of a string or a number, reads as undefined
Get(x, f) == IF x.t = "obj" /\ f \in DOMAIN x.o THEN x.o[f] ELSE Undef

\* x?.f
GetOpt(x, f) == IF x.t = "undefined" THEN Undef ELSE Get(x, f)

DigitChars == <<"0", "1", "2", "3", "4", "5", "6", "7", "8", "9">>

RECURSIVE Digits(_)
Digits(n) ==
  IF n < 10 THEN <<DigitChars[n + 1]>>
  ELSE Digits(n \div 10) \o <<DigitChars[(n % 10) + 1]>>

\* `${x}` of a template literal
ToStr(x) ==
  CASE x.t = "str" -> x.s
    [] x.t = "num" -> Digits(x.n)
    [] x.t = "undefined" -> <<"undefined">>
    [] OTHER -> <<"[object]">>

---------------------------------------------------------------------------
(* The templater *)

\* the characters of [a-zA-Z0-9]
Alnum ==
  { "a", "b", "c", "d", "e", "f", "g", "h", "i", "j", "k", "l", "m",
    "n", "o", "p", "q", "r", "s", "t", "u", "v", "w", "x", "y", "z",
    "A", "B", "C", "D", "E", "F", "G", "H", "I", "J", "K", "L", "M",
    "N", "O", "P", "Q", "R", "S", "T", "U", "V", "W", "X", "Y", "Z",
    "0", "1", "2", "3", "4", "5", "6", "7", "8", "9" }

\* a replace without the g flag: only the first match is replaced
SanitizeFirstOnly(s) ==
  LET bad == {i \in 1..Len(s) : s[i] \notin Alnum}
      first == IF bad = {} THEN 0 ELSE CHOOSE i \in bad : \A j \in bad : i <= j
  IN [i \in 1..Len(s) |-> IF i = first THEN "_" ELSE s[i]]

\* s.replace(/[^a-zA-Z0-9]/g, '_')
Sanitize(s) == [i \in 1..Len(s) |-> IF s[i] \in Alnum THEN s[i] ELSE "_"]

\* three digits, zero padded: a group after a separator
Pad3(n) ==
  <<DigitChars[(n \div 100) + 1], DigitChars[((n \div 10) % 10) + 1],
    DigitChars[(n % 10) + 1]>>

RECURSIVE Group(_)
\* the integer part with es-MX grouping: a comma every three digits
Group(n) ==
  IF n < 1000 THEN Digits(n)
  ELSE Group(n \div 1000) \o <<",">> \o Pad3(n % 1000)

\* the fraction of a price given in hundredths: no trailing zero, none for 0
Fraction(c) ==
  IF c = 0 THEN <<>>
  ELSE IF c % 10 = 0 THEN <<".", DigitChars[(c \div 10) + 1]>>
  ELSE <<".", DigitChars[(c \div 10) + 1], DigitChars[(c % 10) + 1]>>

\* new Intl.NumberFormat('es-MX').format(price); a numeric price is carried
\* in hundredths ([t |-> "num", n |-> 19999] is 199.99)
formatPrice(price) ==
  IF price.t = "num" THEN Group(price.n \div 100) \o Fraction(price.n % 100)
  ELSE <<"NaN">>

\* markup of the skeleton that the properties look for
CardOpen == "<div class=\"product-card\">"
CardClose == "</div><!--card-->"
GridOpen == "<div class=\"products-grid\">"
GridClose == "</div><!--grid-->"
NameOpen == "<h3 class=\"product-name\">"
NameClose == "</h3>"
ImgOpen == "<img src=\""
ImgAlt == "\" alt=\""
ImgClose == "\" class=\"product-image\"/>"
PriceOpen == "<div class=\"product-price\">$"
PriceClose == "</div><!--price-->"
FooterCount == "Catalogo generado con CatalogoIA - "
FooterCountEnd == " productos"
Placeholder == "https://via.placeholder.com/300x300.png?text=Sin+Imagen"

\* one element of products.map(product => `...`)
Card(product) ==
  <<CardOpen, "<div class=\"product-image-container\">", ImgOpen>>
  \o ToStr(OrElse(Get(product, "image_url"), Str(<<Placeholder>>)))
  \o <<ImgAlt>> \o ToStr(Get(product, "name")) \o <<ImgClose, "</div>">>
  \o <<NameOpen>> \o ToStr(Get(product, "name")) \o <<NameClose>>
  \o <<PriceOpen>> \o formatPrice(Get(product, "price_retail"))
  \o <<PriceClose, CardClose>>

RECURSIVE Cards(_)
\* products.map(...).join('')
Cards(products) ==
  IF products = <<>> THEN <<>>
  ELSE Card(Head(products)) \o Cards(Tail(products))

\* template.colors?.name || fallback
Color(template, name, fallback) ==
  ToStr(OrElse(GetOpt(Get(template, "colors"), name), Str(<<fallback>>)))

\* the reads that raise a TypeError: a property of an undefined template
\* (line 167), a property of an undefined product (line 286)
TemplaterThrows(products, businessInfo, template) ==
  \/ template.t = "undefined"
  \/ \E i \in 1..Len(products) : products[i].t = "undefined"

TemplateError == "Cannot read properties of undefined"

\* the document of generateCatalogHTML, its interpolations in source order
CatalogDocument(products, businessInfo, template) ==
  LET productsPerPage == OrElse(Get(template, "productsPerPage"), Num(6))
      columns == OrElse(GetOpt(Get(template, "layout"), "columns"), Num(3))
  IN <<"<title>Catalogo ">> \o ToStr(Get(businessInfo, "business_name"))
     \o <<"</title>", "body{color:">> \o Color(template, "text", "#333")
     \o <<";background:">> \o Color(template, "background", "#ffffff")
     \o <<"}.catalog-header{background:linear-gradient(135deg,">>
     \o Color(template, "primary", "#007bff") \o <<",">>
     \o Color(template, "secondary", "#6c757d")
     \o <<")}.products-grid{grid-template-columns:repeat(">>
     \o ToStr(columns) \o <<",1fr)}.product-card{border:2px solid ">>
     \o Color(template, "accent", "#dee2e6")
     \o <<"}.product-name{color:">> \o Color(template, "primary", "#007bff")
     \o <<"}.product-price{color:">>
     \o Color(template, "secondary", "#6c757d") \o <<";background:">>
     \o Color(template, "accent", "#dee2e6")
     \o <<"40}.catalog-footer{background:">>
     \o Color(template, "primary", "#007bff") \o <<"10}">>
     \o <<"<h1 class=\"business-name\">">>
     \o ToStr(Get(businessInfo, "business_name")) \o <<"</h1>", "<p>Catalogo ">>
     \o ToStr(OrElse(Get(template, "displayName"), Str(<<"Premium">>)))
     \o <<"</p>", GridOpen>> \o Cards(products) \o <<GridClose, "tel ">>
     \o ToStr(OrElse(Get(businessInfo, "phone"), Str(<<>>))) \o <<" | mail ">>
     \o ToStr(OrElse(Get(businessInfo, "email"), Str(<<>>)))
     \o <<FooterCount>> \o Digits(Len(products)) \o <<FooterCountEnd>>

\* generateCatalogHTML(products, businessInfo, template): what it throws,
\* or the string it returns
generateCatalogHTML(products, businessInfo, template) ==
  IF TemplaterThrows(products, businessInfo, template)
  THEN [threw |-> TRUE, message |-> TemplateError, html |-> <<>>]
  ELSE [threw |-> FALSE, message |-> "",
        html |-> CatalogDocument(products, businessInfo, template)]

---------------------------------------------------------------------------
(* Requests *)

GenerateUrl == "/api/generate-pdf"
TestUrl == "/api/test-pdf"

\* req.body as express.json() leaves it when the request carries no fields
EmptyBody ==
  Obj([products |-> Undef, businessInfo |-> Undef, template |-> Undef])

Product(name, image, price) ==
  Obj([id |-> Str(<<"1">>), name |-> Str(name), image_url |-> image,
       price_retail |-> price, description |-> Undef])

BusinessInfo(name) ==
  Obj([business_name |-> name, phone |-> Str(<<"5", "5">>), email |-> Undef])

Colors(primary, secondary, accent, background, text) ==
  Obj([primary |-> primary, secondary |-> secondary, accent |-> accent,
       background |-> background, text |-> text])

Template(displayName, productsPerPage, layout, colors) ==
  Obj([displayName |-> displayName, productsPerPage |-> productsPerPage,
       layout |-> layout, colors |-> colors])

\* the testData literal of the test handler
TestData ==
  Obj([products |->
         Arr(<<Obj([id |-> Str(<<"1">>),
                    name |-> Str(<<"Producto de Prueba">>),
                    image_url |->
                      Str(<<"https://via.placeholder.com/300x300.png?text=TEST">>),
                    price_retail |-> Num(19999),
                    description |-> Str(<<"Descripcion de prueba">>)])>>),
       businessInfo |->
         Obj([business_name |->
                Str(<<"T", "e", "s", "t", " ", "B", "u", "s", "i", "n", "e",
                      "s", "s">>),
              phone |-> Str(<<"+52 1234567890">>),
              email |-> Str(<<"test@example.com">>)]),
       template |->
         Template(Str(<<"Test Template">>), Num(6),
                  Obj([columns |-> Num(3)]),
                  Colors(Str(<<"#007bff">>), Str(<<"#6c757d">>),
                         Str(<<"#17a2b8">>), Str(<<"#ffffff">>),
                         Str(<<"#333333">>)))])

---------------------------------------------------------------------------
(* Inputs of the model *)

\* characters of a business name: a lower-case letter, an upper-case letter,
\* a digit and a character outside [a-zA-Z0-9]
NameChars == {"a", "B", "7", " "}

RECURSIVE StringsUpTo(_, _)
\* the strings over alphabet of length 0..n
StringsUpTo(alphabet, n) ==
  IF n = 0 THEN {<<>>}
  ELSE LET shorter == StringsUpTo(alphabet, n - 1)
       IN shorter \cup {Append(s, c) : s \in shorter, c \in alphabet}

\* business_name: missing, empty, a number, or a string
BusinessNames ==
  {Undef, Num(5)} \cup {Str(s) : s \in StringsUpTo(NameChars, MaxNameLen)}

BusinessInfos ==
  {Undef, Str(<<"a">>)} \cup {BusinessInfo(n) : n \in BusinessNames}

\* product records: a plain one, one without image, one whose name holds
\* markup, one without price
ProductSet ==
  { Product(<<"a">>, Str(<<"u">>), Num(19999)),
    Product(<<"b">>, Undef, Num(123456)),
    Product(<<"c", CardOpen>>, Str(<<"u">>), Num(500)),
    Product(<<"d">>, Str(<<"u">>), Undef) }

RECURSIVE ListsUpTo(_, _)
\* the sequences over elems of length 0..n
ListsUpTo(elems, n) ==
  IF n = 0 THEN {<<>>}
  ELSE LET shorter == ListsUpTo(elems, n - 1)
       IN shorter \cup {Append(s, e) : s \in shorter, e \in elems}

\* products: missing, not an array, or an array (the empty one included)
ProductLists ==
  {Undef, Str(<<"a">>), Obj([length |-> Num(1)])}
  \cup {Arr(l) : l \in ListsUpTo(ProductSet, MaxProducts)}

\* template: missing, an object with no field, with the layout only, with
\* some colors only, with every field
Templates ==
  { Undef,
    Template(Undef, Undef, Undef, Undef),
    Template(Undef, Undef, Obj([columns |-> Num(2)]), Undef),
    Template(Str(<<"Gold">>), Undef, Undef,
             Colors(Str(<<"#111">>), Undef, Undef, Undef, Str(<<"#222">>))),
    Get(TestData, "template") }

MakeBody(products, businessInfo, template) ==
  Obj([products |-> products, businessInfo |-> businessInfo,
       template |-> template])

\* the request bodies of the single-request specification
AllBodies ==
  {MakeBody(p, b, t) : p \in ProductLists, b \in BusinessInfos, t \in Templates}

OneProduct == Arr(<<Product(<<"a">>, Str(<<"u">>), Num(19999))>>)
FullTemplate == Get(TestData, "template")

\* the request bodies of the concurrent specification: an invalid one and
\* two valid ones that differ in every field
Bodies ==
  { EmptyBody,
    MakeBody(OneProduct, BusinessInfo(Str(<<"a", " ">>)), FullTemplate),
    MakeBody(Arr(<<Product(<<"b">>, Undef, Num(123456))>>),
             BusinessInfo(Str(<<"B">>)), Template(Undef, Undef, Undef, Undef)) }

---------------------------------------------------------------------------
(* State *)

\* let browser = null
Null == 0

Upd(f, r, v) == [f EXCEPT ![r] = v]

NoHeaders == [ct |-> <<>>, cd |-> <<>>]

Init ==
  /\ url = [r \in Reqs |-> ""]
  /\ body = [r \in Reqs |-> EmptyBody]
  /\ pc = [r \in Reqs |-> "idle"]
  /\ browser = [s \in 0..NumReqs |-> Null]
  /\ page = [r \in Reqs |-> Null]
  /\ html = [r \in Reqs |-> <<>>]
  /\ headers = [r \in Reqs |-> NoHeaders]
  /\ resp = [r \in Reqs |-> <<>>]
  /\ thrown = [r \in Reqs |-> ""]
  /\ launches = [r \in Reqs |-> 0]
  /\ closes = [r \in Reqs |-> 0]
  /\ testRuns = [r \in Reqs |-> 0]
  /\ browsers = {}
  /\ pages = {}
  /\ content = [p \in Reqs |-> <<>>]
  /\ hits = 0
  /\ windows = 0

---------------------------------------------------------------------------
(* Responses *)

JsonType == <<"application/json">>
PdfType == <<"application/pdf">>

\* res.status(status).json(payload): json() sets the Content-Type only when
\* none is set yet; the headers set before stay on the response
JsonResponse(status, hdrs, payload) ==
  [status |-> status, ct |-> IF hdrs.ct = <<>> THEN JsonType ELSE hdrs.ct,
   cd |-> hdrs.cd, body |-> payload]

\* the value of the Content-Disposition header of line 109
ContentDisposition(name) ==
  <<"attachment; filename=\"catalogo-">> \o Sanitize(name) \o <<".pdf\"">>

\* a catch block that drops the message
CatchBodyNoDetails(message) ==
  [error |-> "Error generando PDF", details |-> ""]

\* the payload of the catch block
CatchBody(message) ==
  [error |-> "Error generando PDF", details |-> message]

\* a validation that forgets the empty array
ProductsValidNoLength(products) ==
  Truthy(products) /\ products.t = "arr"

\* the negation of: !products || !Array.isArray(products) || products.length === 0
ProductsValid(products) ==
  Truthy(products) /\ products.t = "arr" /\ Len(products.a) # 0

\* the negation of: !businessInfo || !businessInfo.business_name
BusinessValid(businessInfo) ==
  Truthy(businessInfo) /\ Truthy(Get(businessInfo, "business_name"))

\* a browser variable declared once at module level
BrowserVarShared(r) == 0

\* the variable `browser` of one invocation of the handler
BrowserVar(r) == r

---------------------------------------------------------------------------
(* The generate-pdf handler after its entry: catch and finally *)

\* a close placed at the end of the try block
FinallyOnSuccessOnly(r) ==
  IF browser[BrowserVar(r)] # Null /\ thrown'[r] = ""
  THEN pc' = Upd(pc, r, "close") /\ closes' = Upd(closes, r, closes[r] + 1)
  ELSE pc' = Upd(pc, r, "done") /\ UNCHANGED closes

\* finally { if (browser) await browser.close() }: the call of close
Finally(r) ==
  IF browser[BrowserVar(r)] # Null
  THEN pc' = Upd(pc, r, "close") /\ closes' = Upd(closes, r, closes[r] + 1)
  ELSE pc' = Upd(pc, r, "done") /\ UNCHANGED closes

\* a handler with no catch block: the error is recorded, nothing is sent
FailNoResponse(r, message, hdrs) ==
  /\ thrown' = Upd(thrown, r, message)
  /\ headers' = Upd(headers, r, hdrs)
  /\ UNCHANGED resp
  /\ Finally(r)

\* an error thrown inside try: the catch block answers 500, then finally
Fail(r, message, hdrs) ==
  /\ thrown' = Upd(thrown, r, message)
  /\ headers' = Upd(headers, r,
                    [hdrs EXCEPT !.ct = IF hdrs.ct = <<>> THEN JsonType ELSE @])
  /\ resp' = Upd(resp, r,
                 Append(resp[r], JsonResponse(500, hdrs, CatchBody(message))))
  /\ Finally(r)

---------------------------------------------------------------------------
(* The router *)

\* a request for url u arrives with one of the given bodies
Arrive(r, u, bodies) ==
  /\ pc[r] = "idle"
  /\ url' = Upd(url, r, u)
  /\ \E b \in bodies : body' = Upd(body, r, b)
  /\ pc' = Upd(pc, r, "router")
  /\ UNCHANGED <<browser, page, html, headers, resp, thrown, launches, closes,
                 testRuns, browsers, pages, content, hits, windows>>

\* the limiter's answer once the window's count exceeds max
Limited(r) ==
  /\ resp' = Upd(resp, r,
                 Append(resp[r],
                        JsonResponse(429, NoHeaders,
                                     [error |-> "Demasiadas solicitudes"])))
  /\ pc' = Upd(pc, r, "limited")
  /\ UNCHANGED <<body, browser, headers, thrown, launches, closes, testRuns>>

\* the test handler: req.body = testData, then app._router.handle(req, res),
\* a new pass of the router over the same request (req.url is not changed)
TestPdf(r) ==
  /\ body' = Upd(body, r, TestData)
  /\ testRuns' = Upd(testRuns, r, testRuns[r] + 1)
  /\ pc' = Upd(pc, r, "router")
  /\ UNCHANGED <<browser, headers, resp, thrown, launches, closes>>

\* the generate-pdf handler up to its first await: validation, then the call
\* of puppeteer.launch
GeneratePdf(r) ==
  LET products == Get(body[r], "products")
      businessInfo == Get(body[r], "businessInfo")
  IN /\ UNCHANGED <<body, headers, thrown, closes, testRuns>>
     /\ IF ~ProductsValid(products)
        THEN /\ resp' = Upd(resp, r,
                            Append(resp[r],
                                   JsonResponse(400, NoHeaders,
                                     [error |-> "Se requiere array de productos valido"])))
             /\ pc' = Upd(pc, r, "done")
             /\ UNCHANGED <<browser, launches>>
        ELSE IF ~BusinessValid(businessInfo)
        THEN /\ resp' = Upd(resp, r,
                            Append(resp[r],
                                   JsonResponse(400, NoHeaders,
                                     [error |-> "Se requiere informacion del negocio"])))
             /\ pc' = Upd(pc, r, "done")
             /\ UNCHANGED <<browser, launches>>
        ELSE /\ browser' = Upd(browser, BrowserVar(r), Null)
             /\ launches' = Upd(launches, r, launches[r] + 1)
             /\ pc' = Upd(pc, r, "launch")
             /\ UNCHANGED resp

\* one pass of app._router over a request: the limiter mounted on /api/, then
\* the route that matches req.url
RouterPass(r) ==
  /\ pc[r] = "router"
  /\ hits' = hits + 1
  /\ IF hits + 1 > RateMax THEN Limited(r)
     ELSE IF url[r] = TestUrl THEN TestPdf(r)
     ELSE GeneratePdf(r)
  /\ UNCHANGED <<url, page, html, browsers, pages, content, windows>>

\* windowMs elapsed: the limiter's count starts again
ResetWindow ==
  /\ windows < MaxWindows
  /\ hits > 0
  /\ hits' = 0
  /\ windows' = windows + 1
  /\ UNCHANGED <<url, body, pc, browser, page, html, headers, resp, thrown,
                 launches, closes, testRuns, browsers, pages, content>>

---------------------------------------------------------------------------
(* The generate-pdf handler, one action per outcome of an await *)

PageOpen(p) == \E q \in pages : q.id = p

\* the messages of the errors the awaited calls reject with
LaunchError == "Failed to launch the browser process"
NewPageError == "newPage failed"
ViewportError == "setViewport failed"
TimeoutError == "Navigation timeout of 30000 ms exceeded"
ContentError == "setContent failed"
PdfError == "pdf failed"
ReplaceError == "business_name.replace is not a function"
SendError == "send failed"

\* puppeteer.launch resolved: browser = <the new browser>, then the call of
\* browser.newPage(); the browser launched by request r is named r
LaunchOk(r) ==
  /\ pc[r] = "launch"
  /\ browsers' = browsers \cup {r}
  /\ browser' = Upd(browser, BrowserVar(r), r)
  /\ pc' = Upd(pc, r, "newPage")
  /\ UNCHANGED <<url, body, page, html, headers, resp, thrown, launches,
                 closes, testRuns, pages, content, hits, windows>>

\* puppeteer.launch rejected: browser is still null, so finally closes nothing
LaunchFail(r) ==
  /\ pc[r] = "launch"
  /\ Fail(r, LaunchError, headers[r])
  /\ UNCHANGED <<url, body, browser, page, html, launches, testRuns, browsers,
                 pages, content, hits, windows>>

\* browser.newPage() resolved: const page = <the new page>, then the call of
\* page.setViewport; the page opened by request r is named r
NewPageOk(r) ==
  /\ pc[r] = "newPage"
  /\ browser[BrowserVar(r)] \in browsers
  /\ pages' = pages \cup {[id |-> r, browser |-> browser[BrowserVar(r)]]}
  /\ page' = Upd(page, r, r)
  /\ pc' = Upd(pc, r, "setViewport")
  /\ UNCHANGED <<url, body, browser, html, headers, resp, thrown, launches,
                 closes, testRuns, browsers, content, hits, windows>>

NewPageFail(r) ==
  /\ pc[r] = "newPage"
  /\ Fail(r, NewPageError, headers[r])
  /\ UNCHANGED <<url, body, browser, page, html, launches, testRuns, browsers,
                 pages, content, hits, windows>>

\* page.setViewport resolved: generateCatalogHTML runs, and either throws
\* into the catch block or its string goes to the call of page.setContent
SetViewportOk(r) ==
  LET result == generateCatalogHTML(Get(body[r], "products").a,
                                    Get(body[r], "businessInfo"),
                                    Get(body[r], "template"))
  IN /\ pc[r] = "setViewport"
     /\ PageOpen(page[r])
     /\ IF result.threw
        THEN Fail(r, result.message, headers[r]) /\ UNCHANGED html
        ELSE /\ html' = Upd(html, r, result.html)
             /\ pc' = Upd(pc, r, "setContent")
             /\ UNCHANGED <<headers, resp, thrown, closes>>
     /\ UNCHANGED <<url, body, browser, page, launches, testRuns, browsers,
                    pages, content, hits, windows>>

SetViewportFail(r) ==
  /\ pc[r] = "setViewport"
  /\ Fail(r, ViewportError, headers[r])
  /\ UNCHANGED <<url, body, browser, page, html, launches, testRuns, browsers,
                 pages, content, hits, windows>>

\* page.setContent resolved: the page holds the document, then the call of
\* page.pdf
SetContentOk(r) ==
  /\ pc[r] = "setContent"
  /\ PageOpen(page[r])
  /\ content' = Upd(content, page[r], html[r])
  /\ pc' = Upd(pc, r, "pdf")
  /\ UNCHANGED <<url, body, browser, page, html, headers, resp, thrown,
                 launches, closes, testRuns, browsers, pages, hits, windows>>

\* page.setContent rejected: networkidle0 not reached within timeout: 30000,
\* or another error of the load
SetContentFail(r) ==
  /\ pc[r] = "setContent"
  /\ \E message \in {TimeoutError, ContentError} :
       Fail(r, message, headers[r])
  /\ UNCHANGED <<url, body, browser, page, html, launches, testRuns, browsers,
                 pages, content, hits, windows>>

\* the buffer page.pdf resolves with: the rendering of what the page holds
PdfBuffer(p) == [pdf |-> content[p]]

\* page.pdf resolved and the response is written: both setHeader calls, then
\* res.send(pdfBuffer); a business_name that is no string has no replace
\* method, and line 109 throws with only the Content-Type set
PdfOk(r) ==
  LET name == Get(Get(body[r], "businessInfo"), "business_name")
      typed == [headers[r] EXCEPT !.ct = PdfType]
  IN /\ pc[r] = "pdf"
     /\ PageOpen(page[r])
     /\ IF name.t # "str"
        THEN Fail(r, ReplaceError, typed)
        ELSE LET both == [typed EXCEPT !.cd = ContentDisposition(name.s)]
             IN /\ headers' = Upd(headers, r, both)
                /\ resp' = Upd(resp, r,
                               Append(resp[r],
                                      [status |-> 200, ct |-> both.ct,
                                       cd |-> both.cd,
                                       body |-> PdfBuffer(page[r])]))
                /\ UNCHANGED thrown
                /\ Finally(r)
     /\ UNCHANGED <<url, body, browser, page, html, launches, testRuns,
                    browsers, pages, content, hits, windows>>

\* page.pdf resolved, both headers are set and res.send throws before
\* anything is written
SendFail(r) ==
  LET name == Get(Get(body[r], "businessInfo"), "business_name")
  IN /\ pc[r] = "pdf"
     /\ PageOpen(page[r])
     /\ name.t = "str"
     /\ Fail(r, SendError,
             [ct |-> PdfType, cd |-> ContentDisposition(name.s)])
     /\ UNCHANGED <<url, body, browser, page, html, launches, testRuns,
                    browsers, pages, content, hits, windows>>

PdfFail(r) ==
  /\ pc[r] = "pdf"
  /\ Fail(r, PdfError, headers[r])
  /\ UNCHANGED <<url, body, browser, page, html, launches, testRuns, browsers,
                 pages, content, hits, windows>>

\* a browser that is only disconnected from: the process and its pages stay
CloseOkDisconnect(r) ==
  /\ pc[r] = "close"
  /\ pc' = Upd(pc, r, "done")
  /\ UNCHANGED <<url, body, browser, page, html, headers, resp, thrown,
                 launches, closes, testRuns, browsers, pages, content, hits,
                 windows>>

\* browser.close() resolved: the browser and its pages are gone
CloseOk(r) ==
  /\ pc[r] = "close"
  /\ browsers' = browsers \ {browser[BrowserVar(r)]}
  /\ pages' = {q \in pages : q.browser # browser[BrowserVar(r)]}
  /\ pc' = Upd(pc, r, "done")
  /\ UNCHANGED <<url, body, browser, page, html, headers, resp, thrown,
                 launches, closes, testRuns, content, hits, windows>>

\* browser.close() rejected: the error leaves the handler from the finally
\* block, after the response; the browser may or may not have gone
CloseFail(r) ==
  /\ pc[r] = "close"
  /\ \E gone \in BOOLEAN :
       /\ browsers' = IF gone THEN browsers \ {browser[BrowserVar(r)]}
                      ELSE browsers
       /\ pages' = IF gone
                   THEN {q \in pages : q.browser # browser[BrowserVar(r)]}
                   ELSE pages
  /\ pc' = Upd(pc, r, "rejected")
  /\ UNCHANGED <<url, body, browser, page, html, headers, resp, thrown,
                 launches, closes, testRuns, content, hits, windows>>

---------------------------------------------------------------------------
(* Specifications *)

Handler(r) ==
  \/ RouterPass(r)
  \/ LaunchOk(r) \/ LaunchFail(r)
  \/ NewPageOk(r) \/ NewPageFail(r)
  \/ SetViewportOk(r) \/ SetViewportFail(r)
  \/ SetContentOk(r) \/ SetContentFail(r)
  \/ PdfOk(r) \/ SendFail(r) \/ PdfFail(r)
  \/ CloseOk(r) \/ CloseFail(r)

\* concurrent requests to generate-pdf, bodies from Bodies
Next ==
  \/ \E r \in Reqs : Arrive(r, GenerateUrl, Bodies)
  \/ \E r \in Reqs : Handler(r)

Spec == Init /\ [][Next]_vars

\* one request to generate-pdf, its body from AllBodies
NextOne ==
  \/ Arrive(1, GenerateUrl, AllBodies)
  \/ Handler(1)

SpecOne == Init /\ [][NextOne]_vars

\* a request to test-pdf beside requests to generate-pdf, while rate-limit
\* windows elapse
NextTest ==
  \/ Arrive(1, TestUrl, {EmptyBody})
  \/ \E r \in Reqs \ {1} : Arrive(r, GenerateUrl, {TestData})
  \/ \E r \in Reqs : Handler(r)
  \/ ResetWindow

SpecTest == Init /\ [][NextTest]_vars

---------------------------------------------------------------------------
(* Vocabulary of the properties *)

\* the generate-pdf handler has been invoked for r
Entered(r) == pc[r] \notin {"idle", "router", "limited"}

\* the handler is between its invocation and its end
InFlight(r) ==
  pc[r] \in {"launch", "newPage", "setViewport", "setContent", "pdf", "close"}

\* the handler has ended: it returned, or its promise was rejected
Finished(r) == pc[r] \in {"done", "rejected"}

\* launch resolved for r
Launched(r) ==
  /\ pc[r] \in {"newPage", "setViewport", "setContent", "pdf", "close",
                "done", "rejected"}
  /\ launches[r] > 0
  /\ thrown[r] # LaunchError

ProductsOf(r) == Get(body[r], "products")
BusinessNameOf(r) == Get(Get(body[r], "businessInfo"), "business_name")
TemplateOf(r) == Get(body[r], "template")

\* the body has a non-empty product array and a non-empty business name
HasRequiredFields(r) ==
  /\ ProductsOf(r).t = "arr"
  /\ ProductsOf(r).a # <<>>
  /\ BusinessNameOf(r) \notin {Undef, Str(<<>>)}

Statuses(r) == {resp[r][i].status : i \in 1..Len(resp[r])}

---------------------------------------------------------------------------
(* C1 *)

\* C1: a generate-pdf request whose body lacks a non-empty product array or
\* a business name never launches a browser (launch count 0, no browser of
\* its own, in every state) and is answered 400 by the handler.
C1_InvalidNeverLaunches ==
  \A r \in Reqs :
    url[r] = GenerateUrl /\ ~HasRequiredFields(r) =>
      /\ launches[r] = 0
      /\ r \notin browsers
      /\ browser[r] = Null
      /\ Entered(r) => pc[r] = "done" /\ Len(resp[r]) = 1
                       /\ resp[r][1].status = 400

\* an empty product array with a business name was answered
C1_Witness ==
  \E r \in Reqs :
    /\ ProductsOf(r) = Arr(<<>>)
    /\ BusinessNameOf(r) = Str(<<"a">>)
    /\ pc[r] = "done"
    /\ Statuses(r) = {400}

---------------------------------------------------------------------------
(* C2 *)

---------------------------------------------------------------------------
(* C3 *)

\* C3: a test-pdf request runs the test handler once; the pass of the router
\* that follows the replay hands the request, with the sample payload, to the
\* generate-pdf handler, and every response it gets is that handler's.
C3_ReplayReachesGenerate ==
  \A r \in Reqs :
    url[r] = TestUrl =>
      /\ testRuns[r] <= 1
      /\ resp[r] # <<>> => Entered(r) /\ body[r] = TestData

---------------------------------------------------------------------------
(* C4 *)

\* C4: an error thrown at any stage of a validated request is answered by
\* one 500 response whose body is {error, details} with details the error's
\* message; the launch is attempted at most once; after a failed launch no
\* close is called.
C4_FailureIs500 ==
  \A r \in Reqs :
    /\ launches[r] <= 1
    /\ thrown[r] # "" =>
         /\ Len(resp[r]) = 1
         /\ resp[r][1].status = 500
         /\ DOMAIN resp[r][1].body = {"error", "details"}
         /\ resp[r][1].body.details = thrown[r]
    /\ thrown[r] = LaunchError =>
         closes[r] = 0 /\ pc[r] = "done" /\ r \notin browsers

\* the content load timed out and was answered
C4_Witness ==
  \E r \in Reqs :
    /\ thrown[r] = TimeoutError
    /\ Statuses(r) = {500}
    /\ launches[r] = 1

---------------------------------------------------------------------------
(* C5 *)

\* a template with every missing field replaced by its default
WithDefaults(template) ==
  LET colors == Get(template, "colors")
  IN Template(OrElse(Get(template, "displayName"), Str(<<"Premium">>)),
              OrElse(Get(template, "productsPerPage"), Num(6)),
              Obj([columns |->
                     OrElse(GetOpt(Get(template, "layout"), "columns"), Num(3))]),
              Colors(OrElse(GetOpt(colors, "primary"), Str(<<"#007bff">>)),
                     OrElse(GetOpt(colors, "secondary"), Str(<<"#6c757d">>)),
                     OrElse(GetOpt(colors, "accent"), Str(<<"#dee2e6">>)),
                     OrElse(GetOpt(colors, "background"), Str(<<"#ffffff">>)),
                     OrElse(GetOpt(colors, "text"), Str(<<"#333">>))))

\* C5: for a request with a non-empty product array and a business name,
\* whether the template is absent or an object with fields missing, the
\* templater raises no error, and the document is the one of the template
\* with the defaults filled in.
C5_TemplateOptional ==
  \A r \in Reqs :
    HasRequiredFields(r) /\ TemplateOf(r).t \in {"undefined", "obj"} =>
      /\ thrown[r] # TemplateError
      /\ html[r] # <<>> =>
           html[r] = CatalogDocument(ProductsOf(r).a,
                                     Get(body[r], "businessInfo"),
                                     WithDefaults(TemplateOf(r)))

---------------------------------------------------------------------------
(* C7 *)

\* the positions of the product-card openings of a document
CardStarts(h) == {i \in 1..Len(h) : h[i] = CardOpen}

\* the position of the k-th opening
NthStart(h, k) ==
  CHOOSE i \in CardStarts(h) :
    Cardinality({j \in CardStarts(h) : j < i}) = k - 1

GridEnd(h) == CHOOSE i \in 1..Len(h) : h[i] = GridClose

\* the k-th product-card fragment: from its opening to the next one, or to
\* the end of the grid
Fragment(h, k) ==
  SubSeq(h, NthStart(h, k),
         IF k < Cardinality(CardStarts(h)) THEN NthStart(h, k + 1) - 1
         ELSE GridEnd(h) - 1)

Contains(h, part) ==
  \E i \in 1..(Len(h) - Len(part) + 1) :
    SubSeq(h, i, i + Len(part) - 1) = part

\* fragment k of h shows product p: its name as the heading, its image as
\* the source of the img, its price formatted
Shows(h, k, p) ==
  /\ Contains(Fragment(h, k), <<NameOpen>> \o Get(p, "name").s \o <<NameClose>>)
  /\ Get(p, "image_url").t = "str" =>
       Contains(Fragment(h, k), <<ImgOpen>> \o Get(p, "image_url").s \o <<ImgAlt>>)
  /\ Get(p, "price_retail").t = "num" =>
       Contains(Fragment(h, k),
                <<PriceOpen>> \o formatPrice(Get(p, "price_retail"))
                \o <<PriceClose>>)

\* C7: for a product list of length n >= 1, a non-empty business name and a
\* template object, the document the templater returned holds exactly n
\* product-card fragments, the i-th showing the i-th product, and its footer
\* reports n.
C7_OneCardPerProduct ==
  \A r \in Reqs :
    HasRequiredFields(r) /\ TemplateOf(r).t = "obj" /\ html[r] # <<>> =>
      LET n == Len(ProductsOf(r).a)
      IN /\ Cardinality(CardStarts(html[r])) = n
         /\ \A k \in 1..n : Shows(html[r], k, ProductsOf(r).a[k])
         /\ Contains(html[r],
                     <<FooterCount>> \o Digits(n) \o <<FooterCountEnd>>)

---------------------------------------------------------------------------
(* C8 *)

\* C8: every 200 response carries Content-Type application/pdf and the
\* Content-Disposition attachment; filename="catalogo-<s>.pdf", s being the
\* business name with each character outside [a-zA-Z0-9] replaced by '_'
\* and the others unchanged; both headers were set on the response when the
\* body was written.
C8_SuccessHeaders ==
  \A r \in Reqs :
    \A i \in 1..Len(resp[r]) :
      resp[r][i].status = 200 =>
        LET name == BusinessNameOf(r)
            cd == resp[r][i].cd
        IN /\ name.t = "str"
           /\ resp[r][i].ct = <<"application/pdf">>
           /\ headers[r] = [ct |-> resp[r][i].ct, cd |-> cd]
           /\ Len(cd) = Len(name.s) + 2
           /\ cd[1] = "attachment; filename=\"catalogo-"
           /\ cd[Len(cd)] = ".pdf\""
           /\ \A k \in 1..Len(name.s) :
                cd[k + 1] = IF name.s[k] \in Alnum THEN name.s[k] ELSE "_"

\* a PDF was sent for a business name with two characters to replace
C8_Witness ==
  \E r \in Reqs :
    /\ BusinessNameOf(r) = Str(<<" ", " ">>)
    /\ Statuses(r) = {200}

---------------------------------------------------------------------------
(* C6 *)

---------------------------------------------------------------------------
(* C9 *)

OpenBrowsers == Cardinality(browsers)
RequestsInFlight == Cardinality({r \in Reqs : pc[r] = "router" \/ InFlight(r)})
RejectedCloses == Cardinality({r \in Reqs : pc[r] = "rejected"})

\* what C9 states of each request, whatever the others do: the browser it
\* launched and the page it opened stay open while it uses them, its page
\* lives in its own browser and holds its own document, a PDF it sent is the
\* rendering of the document templated from its own body, and a 500 it sent
\* answers an error of its own
OwnBrowserAndPage(r) ==
  /\ pc[r] \in {"newPage", "setViewport", "setContent", "pdf", "close"} =>
       r \in browsers
  /\ pc[r] \in {"setViewport", "setContent", "pdf"} =>
       [id |-> r, browser |-> r] \in pages
  /\ \A q \in pages : q.id = q.browser
  /\ pc[r] = "pdf" => content[r] = html[r]
  /\ html[r] # <<>> =>
       html[r] = CatalogDocument(ProductsOf(r).a, Get(body[r], "businessInfo"),
                                 TemplateOf(r))
  /\ \A i \in 1..Len(resp[r]) :
       /\ resp[r][i].status = 200 => resp[r][i].body = [pdf |-> html[r]]
       /\ resp[r][i].status = 500 => thrown[r] # ""

---------------------------------------------------------------------------
(* C10 *)

RenderingPcs == {"launch", "newPage", "setViewport", "setContent", "pdf"}
RespondedPcs == {"close", "done", "rejected"}

\* the states of C10: no response while the browser calls are outstanding
\* and only after validation, exactly one response, 400, 200 or 500, from
\* the moment they have returned or thrown
OneResponse(r) ==
  /\ Len(resp[r]) <= 1
  /\ pc[r] \in RenderingPcs => resp[r] = <<>> /\ HasRequiredFields(r)
  /\ pc[r] \in RespondedPcs =>
       Len(resp[r]) = 1 /\ resp[r][1].status \in {400, 200, 500}
  /\ resp[r] # <<>> /\ resp[r][1].status = 400 =>
       pc[r] = "done" /\ launches[r] = 0

\* the steps of C10: Received -> Validated -> Rendering -> Responded |
\* Failed is never walked backwards, and a response, once issued, is neither
\* followed nor replaced by another
ForwardOnly(r) ==
  /\ pc[r] \in RespondedPcs => pc'[r] \in RespondedPcs /\ resp'[r] = resp[r]
  /\ pc[r] \in RenderingPcs => pc'[r] \in RenderingPcs \cup RespondedPcs
  /\ pc[r] \in {"done", "rejected"} => pc'[r] = pc[r]

\* C10: each generate-pdf request the handler is invoked for goes from
\* received to validated to rendering to responded or failed, and gets
\* exactly one response, 400, 200 or 500, also when res.send throws after
\* the headers were set and when browser.close() rejects after the response.
C10_ExactlyOneResponse ==
  /\ [](\A r \in Reqs : OneResponse(r))
  /\ [][\A r \in Reqs : ForwardOnly(r)]_vars

\* res.send threw after both headers were set, the 500 was sent, and then
\* browser.close() rejected
C10_Witness ==
  \E r \in Reqs :
    /\ thrown[r] = SendError
    /\ pc[r] = "rejected"
    /\ headers[r].cd # <<>>
    /\ Len(resp[r]) = 1

====
